---- MODULE Spec2Model ----
(***************************************************************************)
(* Model of the TimeTracker controller of src/src/app/page.tsx: the React  *)
(* state of the component, the localStorage entries it reads and writes,   *)
(* the setInterval tick source and the handlers start / stop / reset /     *)
(* switchMode / setTimerMinutes, together with the mount effect that       *)
(* resumes a run after a page reload.                                      *)
(*                                                                         *)
(* React semantics that the handlers rely on are modelled explicitly:      *)
(*  - a handler reads the state captured by the render that created it     *)
(*    (its closure) and queues state updates; `st` is the state of the     *)
(*    last committed render, `queued` the state once every queued update   *)
(*    is applied;                                                          *)
(*  - updates queued by a click are flushed before the handler returns;    *)
(*    updates queued by the interval callback wait for a later render;     *)
(*  - localStorage writes take effect at once.                             *)
(* page.tsx holds two copies of the component; `variant` selects the copy. *)
(***************************************************************************)
EXTENDS Integers, Sequences, FiniteSets, TLC

VARIABLES now, st, queued, ls, interval, timers, mounted, variant, run, last,
          starts, server, calls, view

vars == <<now, st, queued, ls, interval, timers, mounted, variant, run, last,
          starts, server, calls, view>>

\* the session store behind /api/sessions and the calls in flight to it
\* (server, calls), and the last evaluation of a function of the analytics
\* and display code (view); page.tsx never calls the API, and the handlers
\* of the controller leave all three alone
aux == <<server, calls, view>>

(* ------------------------------ bounds -------------------------------- *)
\* first clock reading of the model (epoch milliseconds)
T0 == 100000
\* granularity of the clock readings
Step == 1500
\* number of clock steps the model explores after T0
MaxSteps == 2
\* a due tick is delivered at most this many clock steps late
MaxLateSteps == 1
\* number of presses of the Start button the model explores
MaxStarts == 1

MaxTime == T0 + MaxSteps * Step

(* ------------------------- program constants -------------------------- *)
MsPerSec == 1000
SecPerMin == 60
DefaultMinutes == 25
TickPeriod == 1000
MsPerDay == 86400000

\* JavaScript null (startTime when idle) and NaN (parseInt of a non-number)
Null == -888888888
NaN == -777777777

Modes == {"stopwatch", "timer"}

(* --------------------------- JS arithmetic ---------------------------- *)
\* JavaScript truthiness of a number | null
Truthy(x) == x # Null /\ x # NaN /\ x # 0

JsSub(a, b) == IF a = NaN \/ b = NaN THEN NaN ELSE a - b

\* Math.floor(a / d)
JsFloorDiv(a, d) == IF a = NaN THEN NaN ELSE a \div d

\* Math.max(0, a)
JsMax0(a) == IF a = NaN THEN NaN ELSE IF a > 0 THEN a ELSE 0

\* a <= 0
JsLeq0(a) == a # NaN /\ a <= 0

(* --------------------------- localStorage ----------------------------- *)
\* a stored string: absent, the decimal rendering of a number, or other text
NoItem == [kind |-> "none", val |-> 0]
BadItem == [kind |-> "bad", val |-> 0]

\* Number.prototype.toString
NumToString(n) == IF n = NaN THEN BadItem ELSE [kind |-> "num", val |-> n]

\* parseInt(item, 10) of a present item
ParseInt(item) == IF item.kind = "num" THEN item.val ELSE NaN

\* truthiness of localStorage.getItem(..): null is falsy, a string is truthy
Present(item) == item.kind # "none"

NoSessions == [kind |-> "none", val |-> <<>>]
BadSessions == [kind |-> "bad", val |-> <<>>]

JSONStringify(sessions) == [kind |-> "json", val |-> sessions]

NoMode == "none"

EmptyStorage ==
  [trackerMode |-> NoMode, startTime |-> NoItem, timerStartTime |-> NoItem,
   timerDuration |-> NoItem, allSessions |-> NoSessions]

(* ----------------------------- sessions ------------------------------- *)
\* floor((endTime - startTime) / 1000)
DurationCeil(startTime, endTime) == (endTime - startTime + MsPerSec - 1) \div MsPerSec
Duration(startTime, endTime) == JsFloorDiv(JsSub(endTime, startTime), MsPerSec)

\* new Date(startTime).toISOString().split('T')[0]: the UTC day of startTime
DateOf(startTime) == startTime \div MsPerDay

MkSession(startTime, endTime, mode) ==
  [startTime |-> startTime, endTime |-> endTime,
   duration |-> Duration(startTime, endTime), mode |-> mode,
   date |-> DateOf(startTime)]

(* --------------------------- React state ------------------------------ *)
\* the useState initial values
InitialState ==
  [mode |-> "stopwatch", isRunning |-> FALSE, elapsedTime |-> 0,
   timerDuration |-> DefaultMinutes * SecPerMin,
   timerRemaining |-> DefaultMinutes * SecPerMin,
   startTime |-> Null, sessions |-> <<>>]

\* saveSessions(newSessions)
SaveSessions(base, store, newSessions) ==
  [s |-> [base EXCEPT !.sessions = newSessions],
   ls |-> [store EXCEPT !.allSessions = JSONStringify(newSessions)]]

(* ----------------------------- handlers ------------------------------- *)
(* A handler is an operator of: c, the state its closure captured; base,   *)
(* the state its queued updates are applied to; store, localStorage; and   *)
(* t, the value Date.now() returns. It yields the state with its updates   *)
(* applied (s) and the new localStorage (ls).                              *)

\* handleStop
HandleStopNoGuard(c, base, store, t) ==
  LET session == MkSession(c.startTime, t, c.mode)
      saved == SaveSessions(base, store, Append(c.sessions, session))
  IN [s |-> [saved.s EXCEPT !.isRunning = FALSE, !.startTime = Null],
      ls |-> [saved.ls EXCEPT !.startTime = NoItem, !.timerStartTime = NoItem]]

HandleStopAppendsToQueued(c, base, store, t) ==
  IF ~Truthy(c.startTime) THEN [s |-> base, ls |-> store]
  ELSE
    LET session == MkSession(c.startTime, t, c.mode)
        saved == SaveSessions(base, store, Append(base.sessions, session))
    IN [s |-> [saved.s EXCEPT !.isRunning = FALSE, !.startTime = Null,
                 !.elapsedTime = IF c.mode = "stopwatch" THEN 0 ELSE @,
                 !.timerRemaining =
                    IF c.mode = "stopwatch" THEN @ ELSE c.timerDuration],
        ls |-> [saved.ls EXCEPT !.startTime = NoItem, !.timerStartTime = NoItem]]

HandleStopKeepsStartTime(c, base, store, t) ==
  IF ~Truthy(c.startTime) THEN [s |-> base, ls |-> store]
  ELSE
    LET session == MkSession(c.startTime, t, c.mode)
        saved == SaveSessions(base, store, Append(c.sessions, session))
    IN [s |-> [saved.s EXCEPT !.isRunning = FALSE,
                 !.elapsedTime = IF c.mode = "stopwatch" THEN 0 ELSE @,
                 !.timerRemaining =
                    IF c.mode = "stopwatch" THEN @ ELSE c.timerDuration],
        ls |-> [saved.ls EXCEPT !.startTime = NoItem, !.timerStartTime = NoItem]]

HandleStop(c, base, store, t) ==
  IF ~Truthy(c.startTime) THEN [s |-> base, ls |-> store]
  ELSE
    LET session == MkSession(c.startTime, t, c.mode)
        saved == SaveSessions(base, store, Append(c.sessions, session))
    IN [s |-> [saved.s EXCEPT !.isRunning = FALSE, !.startTime = Null,
                 !.elapsedTime = IF c.mode = "stopwatch" THEN 0 ELSE @,
                 !.timerRemaining =
                    IF c.mode = "stopwatch" THEN @ ELSE c.timerDuration],
        ls |-> [saved.ls EXCEPT !.startTime = NoItem, !.timerStartTime = NoItem]]

\* handleStart
HandleStartForgetsMode(c, base, store, t) ==
  [s |-> [base EXCEPT !.startTime = t, !.isRunning = TRUE,
            !.timerRemaining = IF c.mode = "timer" THEN c.timerDuration ELSE @,
            !.elapsedTime = IF c.mode = "timer" THEN @ ELSE 0],
   ls |-> IF c.mode = "timer"
          THEN [store EXCEPT !.startTime = NumToString(t),
                             !.timerStartTime = NumToString(t),
                             !.timerDuration = NumToString(c.timerDuration)]
          ELSE [store EXCEPT !.startTime = NumToString(t)]]

HandleStartSavesOpenSession(c, base, store, t) ==
  LET open == [startTime |-> t, endTime |-> Null, duration |-> 0,
               mode |-> c.mode, date |-> DateOf(t)]
      saved == SaveSessions(base, store, Append(c.sessions, open))
  IN [s |-> [saved.s EXCEPT !.startTime = t, !.isRunning = TRUE],
      ls |-> [saved.ls EXCEPT !.trackerMode = c.mode,
                              !.startTime = NumToString(t)]]

HandleStart(c, base, store, t) ==
  [s |-> [base EXCEPT !.startTime = t, !.isRunning = TRUE,
            !.timerRemaining = IF c.mode = "timer" THEN c.timerDuration ELSE @,
            !.elapsedTime = IF c.mode = "timer" THEN @ ELSE 0],
   ls |-> IF c.mode = "timer"
          THEN [store EXCEPT !.trackerMode = c.mode,
                             !.startTime = NumToString(t),
                             !.timerStartTime = NumToString(t),
                             !.timerDuration = NumToString(c.timerDuration)]
          ELSE [store EXCEPT !.trackerMode = c.mode,
                             !.startTime = NumToString(t)]]

\* handleReset
HandleResetSavesSession(c, base, store, t) ==
  LET stopped == HandleStopNoGuard(c, base, store, t)
  IN [s |-> [stopped.s EXCEPT !.elapsedTime = 0,
                              !.timerRemaining = c.timerDuration],
      ls |-> stopped.ls]

HandleResetKeepsEntries(c, base, store, t) ==
  [s |-> [base EXCEPT !.isRunning = FALSE, !.startTime = Null,
            !.elapsedTime = 0, !.timerRemaining = c.timerDuration],
   ls |-> store]

HandleReset(c, base, store, t) ==
  [s |-> [base EXCEPT !.isRunning = FALSE, !.startTime = Null,
            !.elapsedTime = 0, !.timerRemaining = c.timerDuration],
   ls |-> [store EXCEPT !.startTime = NoItem, !.timerStartTime = NoItem]]

\* switchMode(newMode)
SwitchModeNewModeInSession(c, base, store, newMode, t) ==
  LET stopped == IF c.isRunning
                 THEN HandleStop([c EXCEPT !.mode = newMode], base, store, t)
                 ELSE [s |-> base, ls |-> store]
  IN [s |-> [stopped.s EXCEPT !.mode = newMode, !.elapsedTime = 0,
                              !.timerRemaining = c.timerDuration],
      ls |-> stopped.ls]

SwitchModeWithoutStop(c, base, store, newMode, t) ==
  [s |-> [base EXCEPT !.mode = newMode, !.elapsedTime = 0,
                      !.timerRemaining = c.timerDuration],
   ls |-> store]

SwitchMode(c, base, store, newMode, t) ==
  LET stopped == IF c.isRunning THEN HandleStop(c, base, store, t)
                 ELSE [s |-> base, ls |-> store]
  IN [s |-> [stopped.s EXCEPT !.mode = newMode, !.elapsedTime = 0,
                              !.timerRemaining = c.timerDuration],
      ls |-> stopped.ls]

\* setTimerMinutes, with tempMinutes the text of the input field:
\* parseInt(tempMinutes, 10) || 25
SetTimerMinutesKeepsRemaining(base, tempMinutes) ==
  LET parsed == ParseInt(tempMinutes)
      minutes == IF Truthy(parsed) THEN parsed ELSE DefaultMinutes
  IN [base EXCEPT !.timerDuration = minutes * SecPerMin]

SetTimerMinutes(base, tempMinutes) ==
  LET parsed == ParseInt(tempMinutes)
      minutes == IF Truthy(parsed) THEN parsed ELSE DefaultMinutes
      seconds == minutes * SecPerMin
  IN [base EXCEPT !.timerDuration = seconds, !.timerRemaining = seconds]

(* --------------------------- mount effect ----------------------------- *)
\* loadSessions: JSON.parse of the archive entry; an unparseable entry
\* leaves the list as it is (caught in copy 1, a rejected promise in copy 2)
LoadSessions(base, store) ==
  IF store.allSessions.kind = "json"
  THEN [base EXCEPT !.sessions = store.allSessions.val]
  ELSE base

\* remaining time of a resumed timer:
\* Math.max(0, parseInt(savedTimerDuration || '0') - elapsed)
ResumedRemaining(store, t) ==
  LET timerStart == ParseInt(store.timerStartTime)
      elapsed == JsFloorDiv(JsSub(t, timerStart), MsPerSec)
      duration == IF Present(store.timerDuration)
                  THEN ParseInt(store.timerDuration) ELSE 0
  IN JsMax0(JsSub(duration, elapsed))

\* the mount effect, run on the useState initial values at time t by copy v
MountEffect(store, t, v) ==
  LET savedMode == store.trackerMode
      s1 == IF savedMode # NoMode
            THEN [InitialState EXCEPT !.mode = savedMode] ELSE InitialState
      s2 == IF Present(store.timerDuration)
            THEN [s1 EXCEPT !.timerDuration = ParseInt(store.timerDuration),
                            !.timerRemaining = ParseInt(store.timerDuration)]
            ELSE s1
      start == ParseInt(store.startTime)
      s3 == IF ~Present(store.startTime) THEN s2
            ELSE IF savedMode = "stopwatch"
            THEN [s2 EXCEPT !.startTime = start, !.isRunning = TRUE,
                    !.elapsedTime = JsFloorDiv(JsSub(t, start), MsPerSec)]
            ELSE IF Present(store.timerStartTime)
                    /\ (v = 2 \/ Present(store.timerDuration))
            THEN [s2 EXCEPT !.startTime = start, !.isRunning = TRUE,
                    !.timerRemaining = ResumedRemaining(store, t)]
            ELSE [s2 EXCEPT !.startTime = start, !.isRunning = TRUE]
  IN LoadSessions(s3, store)

(* ---------------------------- tick source ----------------------------- *)
\* what the interval callback captured from the render that created it
Closure(s) ==
  [mode |-> s.mode, startTime |-> s.startTime, sessions |-> s.sessions,
   timerDuration |-> s.timerDuration]

NoInterval == [active |-> FALSE, due |-> 0, c |-> Closure(InitialState)]

\* whether a dependency of the tick effect changed between two renders:
\* [isRunning, mode, startTime, handleStop] in copy 1, where handleStop is
\* memoized on [startTime, sessions, mode, timerDuration];
\* [isRunning, mode, startTime] in copy 2
DepsChanged(old, new, v) ==
  \/ old.isRunning # new.isRunning
  \/ old.mode # new.mode
  \/ old.startTime # new.startTime
  \/ v = 1 /\ (old.sessions # new.sessions
               \/ old.timerDuration # new.timerDuration)

\* the tick effect after the render of `new` at time t: the cleanup clears
\* the interval, and a running component creates a new one
TickEffect(old, new, iv, t, v) ==
  IF ~DepsChanged(old, new, v) THEN iv
  ELSE IF new.isRunning
  THEN [active |-> TRUE, due |-> t + TickPeriod, c |-> Closure(new)]
  ELSE NoInterval

\* the tick effect of the first renders after a mount
MountInterval(new, t) ==
  IF new.isRunning
  THEN [active |-> TRUE, due |-> t + TickPeriod, c |-> Closure(new)]
  ELSE NoInterval

\* The intervals of the browser: the identifiers setInterval returned and
\* clearInterval has not cleared (live), and intervalRef.current (ref, 0
\* for null). `interval` above describes the interval ref denotes.
NoTimers == [ref |-> 0, live |-> {}]

\* setInterval returns an identifier that is not in use
NewTimer(tm) ==
  CHOOSE id \in 1..(Cardinality(tm.live) + 2) :
    /\ id \notin tm.live \cup {tm.ref}
    /\ \A j \in 1..(id - 1) : j \in tm.live \cup {tm.ref}

\* the cleanup of the tick effect without its clearInterval
CleanupKeepsInterval(tm, v) ==
  IF tm.ref # 0 /\ v = 1 THEN [tm EXCEPT !.ref = 0] ELSE tm

\* the cleanup of the tick effect: clearInterval(intervalRef.current), and
\* in copy 1 intervalRef.current = null
CleanupInterval(tm, v) ==
  IF tm.ref # 0
  THEN [ref |-> IF v = 1 THEN 0 ELSE tm.ref, live |-> tm.live \ {tm.ref}]
  ELSE tm

\* the body of the tick effect
EffectBody(new, tm, v) ==
  IF new.isRunning
  THEN [ref |-> NewTimer(tm), live |-> tm.live \cup {NewTimer(tm)}]
  ELSE IF tm.ref # 0
  THEN [ref |-> IF v = 1 THEN 0 ELSE tm.ref, live |-> tm.live \ {tm.ref}]
  ELSE tm

\* the tick effect after the render of `new`: cleanup, then body
TimersAfter(old, new, tm, v) ==
  IF ~DepsChanged(old, new, v) THEN tm
  ELSE EffectBody(new, CleanupInterval(tm, v), v)

\* the tick effect of the first renders after a mount: the body on the
\* initial values, then cleanup and body on the restored state
MountTimers(new, v) ==
  TimersAfter(InitialState, new, EffectBody(InitialState, NoTimers, v), v)

TickOutcomesNoAutoStop(c, base, store, t) ==
  IF c.mode = "stopwatch" /\ Truthy(c.startTime)
  THEN {[s |-> [base EXCEPT !.elapsedTime =
                   JsFloorDiv(JsSub(t, c.startTime), MsPerSec)],
         ls |-> store, stopped |-> FALSE]}
  ELSE IF c.mode = "timer"
  THEN {[s |-> [base EXCEPT !.timerRemaining =
                   JsMax0(JsSub(base.timerRemaining, 1))],
         ls |-> store, stopped |-> FALSE]}
  ELSE {[s |-> base, ls |-> store, stopped |-> FALSE]}

\* the interval callback. In timer mode the updater of setTimerRemaining
\* calls handleStop and returns 0; React does not define whether the 0 or
\* handleStop's own setTimerRemaining(timerDuration) is applied last (the
\* updater runs eagerly at dispatch or during the render), so both are
\* outcomes.
TickOutcomes(c, base, store, t) ==
  IF c.mode = "stopwatch" /\ Truthy(c.startTime)
  THEN {[s |-> [base EXCEPT !.elapsedTime =
                   JsFloorDiv(JsSub(t, c.startTime), MsPerSec)],
         ls |-> store, stopped |-> FALSE]}
  ELSE IF c.mode = "timer"
  THEN LET newRemaining == JsSub(base.timerRemaining, 1)
           r == HandleStop(c, base, store, t)
       IN IF JsLeq0(newRemaining)
          THEN {[s |-> [r.s EXCEPT !.timerRemaining = 0], ls |-> r.ls,
                 stopped |-> Truthy(c.startTime)]}
               \cup (IF Truthy(c.startTime)
                     THEN {[s |-> r.s, ls |-> r.ls, stopped |-> TRUE]}
                     ELSE {})
          ELSE {[s |-> [base EXCEPT !.timerRemaining = newRemaining],
                 ls |-> store, stopped |-> FALSE]}
  ELSE {[s |-> base, ls |-> store, stopped |-> FALSE]}

(* -------------------------- persisted state --------------------------- *)
(* localStorage as an earlier visit of the page can have left it: a closed *)
(* session in the archive or none, and no run, a stopwatch run, a timer    *)
(* run of one minute with two seconds left or already expired, or the      *)
(* entries a finished timer run leaves behind.                             *)
PastSession ==
  MkSession(T0 - 5 * MsPerSec - MsPerSec \div 2, T0 - 3 * MsPerSec, "stopwatch")

PastArchives == {NoSessions, JSONStringify(<<PastSession>>)}

PastStopwatchStart == T0 - MsPerSec - MsPerSec \div 2
PastTimerStarts ==
  {T0 - (SecPerMin - 2) * MsPerSec - MsPerSec \div 2,
   T0 - (SecPerMin + 1) * MsPerSec - MsPerSec \div 2}

PersistedRuns ==
  {EmptyStorage,
   [EmptyStorage EXCEPT !.trackerMode = "timer",
                        !.timerDuration = NumToString(SecPerMin)],
   [EmptyStorage EXCEPT !.trackerMode = "stopwatch",
                        !.startTime = NumToString(PastStopwatchStart)]}
  \cup {[EmptyStorage EXCEPT !.trackerMode = "timer",
                             !.startTime = NumToString(s),
                             !.timerStartTime = NumToString(s),
                             !.timerDuration = NumToString(SecPerMin)]
        : s \in PastTimerStarts}

PersistedStates ==
  {[p EXCEPT !.allSessions = a] : p \in PersistedRuns, a \in PastArchives}

\* entries that no run of the page wrote: a startTime or an archive that
\* does not parse
MalformedStates ==
  {[p EXCEPT !.startTime = BadItem] : p \in PersistedStates}
  \cup {[p EXCEPT !.allSessions = BadSessions] : p \in PersistedStates}

(* --------------------------- /api/sessions ---------------------------- *)
(* The session store: the `sessions` collection of the database and the    *)
(* GET and POST handlers of the route. The repository holds two versions   *)
(* of the route file, src/src/app/api/sessions/route.ts and                *)
(* src/unnamed/part_000; server.route says which one is deployed. Every    *)
(* `await` of a handler ends an atomic step.                               *)
Routes == {"route.ts", "part_000"}

\* number of calls to the API the model explores
MaxCalls == 3

\* the sessions a client posts, and the lists of them without repetition
SessionA == MkSession(T0, T0 + MsPerSec, "stopwatch")
SessionB == MkSession(T0 + 2 * MsPerSec, T0 + 3 * MsPerSec, "timer")

ApiLists ==
  {<<>>, <<SessionA>>, <<SessionB>>, <<SessionA, SessionB>>,
   <<SessionB, SessionA>>}

\* a request body: text that is not JSON, or the JSON value null, a
\* number, a non-empty string, an object without a length, or an array
ArrayBody(list) == [kind |-> "array", val |-> list]

ArrayBodies == {ArrayBody(list) : list \in ApiLists}

MalformedBodies ==
  {[kind |-> k, val |-> <<>>] :
     k \in {"unparseable", "null", "number", "string", "object"}}

Bodies == ArrayBodies \cup MalformedBodies

\* await req.json() throws a SyntaxError
JsonThrows(body) == body.kind = "unparseable"

\* sessions && sessions.length > 0
NonEmpty(body) ==
  \/ body.kind = "array" /\ Len(body.val) > 0
  \/ body.kind = "string"

\* collection.insertMany(docs) throws unless docs is a non-empty array
InsertManyThrows(body) == ~(body.kind = "array" /\ Len(body.val) > 0)

\* sessions.length || 0, for a body other than null
CountOf(body) == IF body.kind = "array" THEN Len(body.val) ELSE 0

\* responses: NextResponse.json({success: true, count}), NextResponse.json(
\* {error}, {status: 500}), the framework's answer to an exception no
\* handler caught, and NextResponse.json(sessions)
Succeeded(count) ==
  [status |-> 200, success |-> TRUE, count |-> count, error |-> FALSE,
   data |-> <<>>]

Failed ==
  [status |-> 500, success |-> FALSE, count |-> Null, error |-> TRUE,
   data |-> <<>>]

Unhandled ==
  [status |-> 500, success |-> FALSE, count |-> Null, error |-> FALSE,
   data |-> <<>>]

Listing(docs) ==
  [status |-> 200, success |-> FALSE, count |-> Null, error |-> FALSE,
   data |-> docs]

\* .sort({ startTime: 1 }): the documents in ascending startTime
RECURSIVE InsertSorted(_, _)
InsertSorted(doc, sorted) ==
  IF sorted = <<>> THEN <<doc>>
  ELSE IF doc.startTime < Head(sorted).startTime THEN <<doc>> \o sorted
  ELSE <<Head(sorted)>> \o InsertSorted(doc, Tail(sorted))

RECURSIVE SortByStartTime(_)
SortByStartTime(docs) ==
  IF docs = <<>> THEN <<>>
  ELSE InsertSorted(docs[Len(docs)],
                    SortByStartTime(SubSeq(docs, 1, Len(docs) - 1)))

\* GET: find({}).toArray(), sorted by part_000 only
FindAll(route, docs) ==
  IF route = "part_000" THEN SortByStartTime(docs) ELSE docs

\* the answer to an exception thrown in POST: caught by part_000 only
Thrown(route) == IF route = "part_000" THEN Failed ELSE Unhandled

\* a call not made yet, and a call in progress or done
NoCall == [op |-> "none", body |-> ArrayBody(<<>>), pc |-> "none",
           res |-> Unhandled]

NoCalls == [i \in 1..MaxCalls |-> NoCall]

\* the collections an earlier use of the API can have left
StoredBefore == {<<>>, <<PastSession>>}

NoServer == [route |-> "route.ts", before |-> <<>>, docs |-> <<>>]

Servers ==
  {[route |-> r, before |-> d, docs |-> d] : r \in Routes, d \in StoredBefore}

NoView == [fn |-> "none"]

(* --------------------------- observations ----------------------------- *)
\* the run opened by the last start whose stop has not executed yet
NoRun == [open |-> FALSE, t0 |-> 0, mode |-> NoMode, D |-> 0]

\* the last operation on a running controller, or the last start or mount
\* (operations on an idle controller are recorded as "idle"): its name and
\* argument, whether a run opened by start was open, whether the updates
\* of an earlier stop were still queued when it ran (raced), and whether
\* it executed the body of handleStop
IdleOp ==
  [op |-> "idle", arg |-> NoMode, open |-> FALSE, raced |-> FALSE,
   stopped |-> FALSE]

Observe(op, arg, stopped) ==
  IF st.isRunning \/ op \in {"start", "mount"}
  THEN [op |-> op, arg |-> arg, open |-> run.open,
        raced |-> (queued.sessions # st.sessions), stopped |-> stopped]
  ELSE IdleOp

(* ------------------------------ actions ------------------------------- *)
InitCommon ==
  /\ now = T0
  /\ st = InitialState
  /\ queued = InitialState
  /\ interval = NoInterval
  /\ timers = NoTimers
  /\ mounted = FALSE
  /\ variant \in {1, 2}
  /\ run = NoRun
  /\ starts = 0
  /\ last = IdleOp
  /\ server = NoServer
  /\ calls = NoCalls
  /\ view = NoView

Init == ls \in PersistedStates /\ InitCommon

InitMalformed == ls \in (PersistedStates \cup MalformedStates) /\ InitCommon

\* the component mounts: first render, mount effect, re-render, tick effect
Remount(op) ==
  /\ st' = MountEffect(ls, now, variant)
  /\ queued' = st'
  /\ interval' = MountInterval(st', now)
  /\ timers' = MountTimers(st', variant)
  /\ mounted' = TRUE
  /\ last' = Observe(op, NoMode, FALSE)
  /\ UNCHANGED <<now, ls, variant, run, starts, aux>>

Mount == ~mounted /\ Remount("mount")

\* the page is reloaded: state, queued updates and the interval are dropped
Reload == mounted /\ Remount("reload")

\* a click: the handler result r is committed and the tick effect re-runs
Commit(r) ==
  /\ st' = r.s
  /\ queued' = r.s
  /\ ls' = r.ls
  /\ interval' = TickEffect(st, r.s, interval, now, variant)
  /\ timers' = TimersAfter(st, r.s, timers, variant)
  /\ UNCHANGED <<now, mounted, variant, aux>>

\* the Start button, shown while not running
Start ==
  /\ mounted /\ ~st.isRunning
  /\ starts < MaxStarts
  /\ starts' = starts + 1
  /\ Commit(HandleStart(st, queued, ls, now))
  /\ run' = [open |-> TRUE, t0 |-> now, mode |-> st.mode, D |-> st.timerDuration]
  /\ last' = Observe("start", NoMode, FALSE)

\* the Stop button, shown while running
Stop ==
  /\ mounted /\ st.isRunning
  /\ Commit(HandleStop(st, queued, ls, now))
  /\ run' = IF Truthy(st.startTime) THEN NoRun ELSE run
  /\ last' = Observe("stop", NoMode, Truthy(st.startTime))
  /\ UNCHANGED starts

\* the Reset button
Reset ==
  /\ mounted
  /\ Commit(HandleReset(st, queued, ls, now))
  /\ run' = NoRun
  /\ last' = Observe("reset", NoMode, FALSE)
  /\ UNCHANGED starts

\* the Stopwatch and Timer buttons
SwitchTo(newMode) ==
  /\ mounted
  /\ Commit(SwitchMode(st, queued, ls, newMode, now))
  /\ last' = Observe("switchMode", newMode,
                     st.isRunning /\ Truthy(st.startTime))
  /\ run' = NoRun
  /\ UNCHANGED starts

Switch == \E newMode \in Modes : SwitchTo(newMode)

\* the Set button of the timer length, shown in timer mode while not running
TimerInputs == {NumToString(1), NumToString(0), NumToString(-1), BadItem}

SetMinutesTo(tempMinutes) ==
  /\ mounted /\ st.mode = "timer" /\ ~st.isRunning
  /\ Commit([s |-> SetTimerMinutes(queued, tempMinutes), ls |-> ls])
  /\ last' = Observe("setTimerMinutes", NoMode, FALSE)
  /\ UNCHANGED <<run, starts>>

SetMinutes == \E tempMinutes \in TimerInputs : SetMinutesTo(tempMinutes)

\* the interval callback fires; its updates wait for the next render
Tick ==
  /\ mounted /\ interval.active /\ now >= interval.due
  /\ \E o \in TickOutcomes(interval.c, queued, ls, now) :
       /\ queued' = o.s
       /\ ls' = o.ls
       /\ run' = IF o.stopped THEN NoRun ELSE run
       /\ last' = Observe("tick", NoMode, o.stopped)
  /\ interval' = [interval EXCEPT !.due = now + TickPeriod]
  /\ UNCHANGED <<now, st, timers, mounted, variant, starts, aux>>

\* React renders the queued updates and re-runs the tick effect
Render ==
  /\ mounted /\ queued # st
  /\ st' = queued
  /\ interval' = TickEffect(st, queued, interval, now, variant)
  /\ timers' = TimersAfter(st, queued, timers, variant)
  /\ last' = Observe("render", NoMode, FALSE)
  /\ UNCHANGED <<now, queued, ls, mounted, variant, run, starts, aux>>

\* time passes; a due tick is delivered at most MaxLateSteps steps late and
\* a render is not delayed past a clock reading. The clock is followed
\* while a run is in progress or can still be started.
Advance ==
  /\ mounted /\ queued = st
  /\ st.isRunning \/ starts < MaxStarts
  /\ now + Step <= MaxTime
  /\ interval.active => now + Step <= interval.due + MaxLateSteps * Step
  /\ now' = now + Step
  /\ last' = Observe("advance", NoMode, FALSE)
  /\ UNCHANGED <<st, queued, ls, interval, timers, mounted, variant, run, starts,
                 aux>>

Next ==
  \/ Mount
  \/ Reload
  \/ Start
  \/ Stop
  \/ Reset
  \/ Switch
  \/ SetMinutes
  \/ Tick
  \/ Render
  \/ Advance

Spec == Init /\ [][Next]_vars

\* the same program started on storage that may hold malformed entries
SpecMalformed == InitMalformed /\ [][Next]_vars

\* a resumed run left to the tick source: no user action after the mount
NextUnattended ==
  \/ Mount
  \/ Tick
  \/ Render
  \/ Advance

Unattended ==
  /\ Init
  /\ [][NextUnattended]_vars
  /\ WF_vars(Mount)
  /\ WF_vars(Tick)
  /\ WF_vars(Render)
  /\ WF_vars(Advance)

(* ----------------------- /api/sessions: steps ------------------------- *)
\* the page is not open: the controller stays as constructed
Unopened ==
  /\ now = T0 /\ st = InitialState /\ queued = InitialState
  /\ ls = EmptyStorage /\ interval = NoInterval /\ timers = NoTimers
  /\ mounted = FALSE
  /\ variant = 1 /\ run = NoRun /\ starts = 0 /\ last = IdleOp

controller ==
  <<now, st, queued, ls, interval, timers, mounted, variant, run, last, starts>>

InFlight(i) == calls[i].op # "none" /\ calls[i].pc # "done"

\* calls are numbered in the order they are made
NextCall(i) ==
  /\ calls[i].op = "none"
  /\ \A j \in 1..(i - 1) : calls[j].op # "none"

\* a client that awaits each response before it makes the next call
Awaited == \A j \in 1..MaxCalls : ~InFlight(j)

Respond(i, res) == [calls EXCEPT ![i].pc = "done", ![i].res = res]

\* POST up to its first database operation: req.json() and connectDB()
PostBegin(i, body) ==
  /\ NextCall(i)
  /\ calls' =
       IF JsonThrows(body)
       THEN [calls EXCEPT ![i] = [op |-> "POST", body |-> body,
                                   pc |-> "done", res |-> Thrown(server.route)]]
       ELSE [calls EXCEPT ![i] = [op |-> "POST", body |-> body,
                                   pc |-> "connected", res |-> Unhandled]]
  /\ UNCHANGED <<server, view, controller>>

PostBeginAwaited(i, body) == Awaited /\ PostBegin(i, body)

\* part_000: await collection.deleteMany({}), and the rest of the handler
\* when there is nothing to insert
PostDelete(i) ==
  /\ server.route = "part_000"
  /\ calls[i].op = "POST" /\ calls[i].pc = "connected"
  /\ server' = [server EXCEPT !.docs = <<>>]
  /\ calls' =
       LET body == calls[i].body
       IN IF NonEmpty(body) THEN [calls EXCEPT ![i].pc = "deleted"]
          ELSE IF body.kind = "null" THEN Respond(i, Failed)
          ELSE Respond(i, Succeeded(CountOf(body)))
  /\ UNCHANGED <<view, controller>>

\* whether call i is about to run insertMany
AtInsert(i) ==
  /\ calls[i].op = "POST"
  /\ calls[i].pc = IF server.route = "part_000" THEN "deleted" ELSE "connected"

\* await collection.insertMany(sessions) and the response
PostInsert(i) ==
  /\ AtInsert(i)
  /\ LET body == calls[i].body
     IN IF InsertManyThrows(body)
        THEN /\ calls' = Respond(i, Thrown(server.route))
             /\ UNCHANGED server
        ELSE /\ server' = [server EXCEPT !.docs = @ \o body.val]
             /\ calls' = Respond(i, IF server.route = "part_000"
                                    THEN Succeeded(CountOf(body))
                                    ELSE Succeeded(Null))
  /\ UNCHANGED <<view, controller>>

\* insertMany fails at document k + 1 (the connection drops, the server
\* rejects the document); an ordered insert keeps the k documents before it
PostInsertFails(i) ==
  /\ AtInsert(i)
  /\ ~InsertManyThrows(calls[i].body)
  /\ \E k \in 0..(Len(calls[i].body.val) - 1) :
       server' = [server EXCEPT !.docs = @ \o SubSeq(calls[i].body.val, 1, k)]
  /\ calls' = Respond(i, Thrown(server.route))
  /\ UNCHANGED <<view, controller>>

\* GET: connectDB(), find({}).toArray() and the response
Get(i) ==
  /\ NextCall(i)
  /\ calls' = [calls EXCEPT ![i] =
                 [op |-> "GET", body |-> ArrayBody(<<>>), pc |-> "done",
                  res |-> Listing(FindAll(server.route, server.docs))]]
  /\ UNCHANGED <<server, view, controller>>

GetAwaited(i) == Awaited /\ Get(i)

InitApi ==
  /\ Unopened
  /\ server \in Servers
  /\ calls = NoCalls
  /\ view = NoView

\* clients that await each response before the next call
NextApiAwaited ==
  \E i \in 1..MaxCalls :
    \/ \E body \in Bodies : PostBeginAwaited(i, body)
    \/ PostDelete(i)
    \/ PostInsert(i)
    \/ PostInsertFails(i)
    \/ GetAwaited(i)

ApiAwaited == InitApi /\ [][NextApiAwaited]_vars

\* clients that call concurrently, with well-formed bodies
NextApi ==
  \E i \in 1..MaxCalls :
    \/ \E body \in ArrayBodies : PostBegin(i, body)
    \/ PostDelete(i)
    \/ PostInsert(i)
    \/ PostInsertFails(i)
    \/ Get(i)

Api == InitApi /\ [][NextApi]_vars

(* ------------------------- JavaScript numbers ------------------------- *)
(* The analytics code adds and divides fractional numbers. A JavaScript    *)
(* number is an IEEE 754 double: 0, or Precision significant binary        *)
(* digits bits[1] = 1, bits[2], .. with bits[k] worth 2^(exp - k + 1).     *)
(* Every operation returns the double nearest to the exact result, ties    *)
(* to an even last digit. Only non-negative numbers occur; integers are    *)
(* below 2^30.                                                             *)
Precision == 53

FloatZero == [exp |-> 0, bits |-> <<>>]

Zeros(n) == [k \in 1..n |-> 0]

\* the binary digits of a natural number, most significant first
BitLen(n) == Cardinality({k \in 0..30 : n \div 2 ^ k > 0})

ToBits(n) == [k \in 1..BitLen(n) |-> (n \div 2 ^ (BitLen(n) - k)) % 2]

\* the value of ten digits from digits[from + 1] on
Limb(digits, from) ==
  digits[from + 1] * 512 + digits[from + 2] * 256 + digits[from + 3] * 128
    + digits[from + 4] * 64 + digits[from + 5] * 32 + digits[from + 6] * 16
    + digits[from + 7] * 8 + digits[from + 8] * 4 + digits[from + 9] * 2
    + digits[from + 10]

\* the double nearest to the number with digits raw, raw[1] worth 2^exp,
\* plus a rest below the last digit that is not 0 when sticky
RoundToDouble(raw, exp, sticky) ==
  LET ones == {k \in 1..Len(raw) : raw[k] = 1}
  IN IF ones = {} THEN FloatZero
     ELSE
       LET first == CHOOSE k \in ones : \A j \in ones : k <= j
           Digit(k) == IF first + k - 1 <= Len(raw) THEN raw[first + k - 1]
                       ELSE 0
           kept == [k \in 1..Precision |-> Digit(k)]
           half == Digit(Precision + 1) = 1
           rest == sticky
                   \/ \E k \in (first + Precision + 1)..Len(raw) : raw[k] = 1
           up == half /\ (rest \/ kept[Precision] = 1)
           zeros == {k \in 1..Precision : kept[k] = 0}
           lowest == CHOOSE k \in zeros : \A j \in zeros : j <= k
       IN IF ~up THEN [exp |-> exp - first + 1, bits |-> kept]
          ELSE IF zeros = {}
          THEN [exp |-> exp - first + 2,
                bits |-> [k \in 1..Precision |-> IF k = 1 THEN 1 ELSE 0]]
          ELSE [exp |-> exp - first + 1,
                bits |-> [k \in 1..Precision |->
                            IF k < lowest THEN kept[k]
                            ELSE IF k = lowest THEN 1 ELSE 0]]

\* an integer as a double (exact)
FloatFromInt(n) == RoundToDouble(ToBits(n), BitLen(n) - 1, FALSE)

\* x + y
FloatAdd(x, y) ==
  IF x = FloatZero THEN y
  ELSE IF y = FloatZero THEN x
  ELSE
    LET top == (IF x.exp > y.exp THEN x.exp ELSE y.exp) + 1
        low == IF x.exp < y.exp THEN x.exp ELSE y.exp
        n == top - low + Precision
        Aligned(z) == Zeros(top - z.exp) \o z.bits \o Zeros(z.exp - low)
        a == Aligned(x)
        b == Aligned(y)
        Carry(k) == \E j \in (k + 1)..n :
                      /\ a[j] + b[j] = 2
                      /\ \A i \in (k + 1)..(j - 1) : a[i] + b[i] = 1
        sum == [k \in 1..n |->
                  (a[k] + b[k] + (IF Carry(k) THEN 1 ELSE 0)) % 2]
    IN RoundToDouble(sum, top, FALSE)

\* x / d for an integer 0 < d < 2^10: long division in base 2^10 of the
\* digits of x followed by 17 zeros (seven limbs)
RECURSIVE Remainder(_, _, _)
Remainder(digits, d, limb) ==
  IF limb = 0 THEN 0
  ELSE (Remainder(digits, d, limb - 1) * 1024
          + Limb(digits, 10 * (limb - 1))) % d

FloatDiv(x, d) ==
  IF x = FloatZero THEN FloatZero
  ELSE
    LET digits == x.bits \o Zeros(17)
        rem == [limb \in 0..7 |-> Remainder(digits, d, limb)]
        quot == [limb \in 1..7 |->
                   (rem[limb - 1] * 1024 + Limb(digits, 10 * (limb - 1)))
                     \div d]
        raw == [k \in 1..70 |->
                  (quot[(k + 9) \div 10] \div 2 ^ (9 - ((k - 1) % 10))) % 2]
    IN RoundToDouble(raw, x.exp, rem[7] # 0)

\* Math.round(x) for 0 <= x < 2^30: the nearest integer, halves upwards
MathRound(x) ==
  IF x = FloatZero \/ x.exp < -1 THEN 0
  ELSE LET whole == Zeros(29 - x.exp) \o SubSeq(x.bits, 1, x.exp + 1)
       IN (Limb(whole, 0) * 1024 + Limb(whole, 10)) * 1024 + Limb(whole, 20)
            + x.bits[x.exp + 2]

\* x * n for an integer 0 <= n < 2^10: the digits of x after 7 zeros are
\* six limbs, multiplied from the last limb on with a carry
RECURSIVE CarryInto(_, _, _)
CarryInto(digits, n, limb) ==
  IF limb = 6 THEN 0
  ELSE (Limb(digits, 10 * limb) * n + CarryInto(digits, n, limb + 1))
         \div 1024

FloatMul(x, n) ==
  IF x = FloatZero THEN FloatZero
  ELSE
    LET digits == Zeros(7) \o x.bits
        out == [limb \in 0..6 |->
                  IF limb = 0 THEN CarryInto(digits, n, 0)
                  ELSE (Limb(digits, 10 * (limb - 1)) * n
                          + CarryInto(digits, n, limb)) % 1024]
        raw == [k \in 1..70 |->
                  (out[(k - 1) \div 10] \div 2 ^ (9 - ((k - 1) % 10))) % 2]
    IN RoundToDouble(raw, x.exp + 17, FALSE)

\* x < y
FloatLess(x, y) ==
  IF y = FloatZero THEN FALSE
  ELSE IF x = FloatZero THEN TRUE
  ELSE \/ x.exp < y.exp
       \/ /\ x.exp = y.exp
          /\ \E k \in 1..Precision :
               /\ x.bits[k] < y.bits[k]
               /\ \A j \in 1..(k - 1) : x.bits[j] = y.bits[j]

\* Math.min(x, y)
MathMin(x, y) == IF FloatLess(y, x) THEN y ELSE x

(* ----------------------------- formatTime ----------------------------- *)
(* A string is the sequence of its characters.                             *)
SecPerHour == 3600

DigitChars == <<"0", "1", "2", "3", "4", "5", "6", "7", "8", "9">>

\* Number.prototype.toString of a non-negative integer: its decimal digits
DecLen(n) == IF n = 0 THEN 1 ELSE Cardinality({k \in 0..9 : n \div 10 ^ k > 0})

ToDecimal(n) ==
  [k \in 1..DecLen(n) |-> DigitChars[((n \div 10 ^ (DecLen(n) - k)) % 10) + 1]]

\* String.prototype.padStart(targetLength, padString) with a one-character
\* padString
PadStart(str, targetLength, ch) ==
  IF Len(str) >= targetLength THEN str
  ELSE [k \in 1..(targetLength - Len(str)) |-> ch] \o str

\* formatTime with the hours taken modulo 24
FormatTimeWrapsHours(seconds) ==
  LET h == (seconds \div SecPerHour) % 24
      m == (seconds % SecPerHour) \div SecPerMin
      s == seconds % SecPerMin
  IN PadStart(ToDecimal(h), 2, "0") \o <<":">> \o PadStart(ToDecimal(m), 2, "0")
       \o <<":">> \o PadStart(ToDecimal(s), 2, "0")

\* formatTime(seconds) of a non-negative integer
FormatTime(seconds) ==
  LET h == seconds \div SecPerHour
      m == (seconds % SecPerHour) \div SecPerMin
      s == seconds % SecPerMin
  IN PadStart(ToDecimal(h), 2, "0") \o <<":">> \o PadStart(ToDecimal(m), 2, "0")
       \o <<":">> \o PadStart(ToDecimal(s), 2, "0")

(* ------------------------- dates and time zones ------------------------ *)
(* The local time of the browser is UTC plus an offset that stays the      *)
(* same over the days of the model (no daylight saving change).            *)
MsPerMin == SecPerMin * MsPerSec
MsPerHour == SecPerHour * MsPerSec
HoursPerDay == 24

\* offsets of local time from UTC: UTC, UTC+05:30, UTC-05:00
TimeZones == {0, 5 * MsPerHour + 30 * MsPerMin, 0 - 5 * MsPerHour}

\* the local calendar day of an instant, as days since 1970-01-01
LocalDay(t, tz) == (t + tz) \div MsPerDay

\* new Date(y, m, d) of the local day of t: its local midnight
LocalMidnight(t, tz) == LocalDay(t, tz) * MsPerDay - tz

\* the clock of the model is in January 1970: setMonth(month - 1) goes
\* back over December 1969 and setFullYear(year - 1) over the year 1969
DaysOfDecember == 31
DaysOf1969 == 365

TimeRanges == {"today", "week", "month", "year"}

(* ------------------------------ analytics ----------------------------- *)
(* The functions the render of the analytics view evaluates on the         *)
(* committed state: sessions, isRunning, startTime and mode, the range     *)
(* selected (timeRange), the clock reading t and the offset tz of local    *)
(* time. The two copies of the component agree on them.                    *)

\* the first day the 'week', 'month' and 'year' ranges include, counted in
\* days back from today
DaysBack(timeRange) ==
  CASE timeRange = "today" -> 0
    [] timeRange = "week" -> 7
    [] timeRange = "month" -> DaysOfDecember
    [] timeRange = "year" -> DaysOf1969

\* getFilteredSessions: the boundary is a local midnight, so a session
\* starts at or after it when its local day is the boundary's day or later
GetFilteredSessions(sessions, timeRange, t, tz) ==
  LET InRange(session) ==
        \/ timeRange \notin TimeRanges
        \/ LocalDay(session.startTime, tz)
             >= LocalDay(t, tz) - DaysBack(timeRange)
  IN SelectSeq(sessions, InRange)

\* the sum dayData.totalMinutes accumulates over the sessions of one date,
\* in the order of the list
RECURSIVE TotalMinutes(_, _)
TotalMinutes(sessions, n) ==
  IF n = 0 THEN FloatZero
  ELSE FloatAdd(TotalMinutes(sessions, n - 1),
                FloatDiv(FloatFromInt(sessions[n].duration), SecPerMin))

\* the sort of the day entries: ascending dates
RECURSIVE SortDates(_)
SortDates(dates) ==
  IF dates = {} THEN <<>>
  ELSE LET first == CHOOSE d \in dates : \A e \in dates : d <= e
       IN <<first>> \o SortDates(dates \ {first})

\* getDayData
GetDayData(sessions, timeRange, t, tz) ==
  LET filtered == GetFilteredSessions(sessions, timeRange, t, tz)
      dates == SortDates({filtered[k].date : k \in 1..Len(filtered)})
      Of(date) == LET On(session) == session.date = date
                  IN SelectSeq(filtered, On)
  IN [k \in 1..Len(dates) |->
        [date |-> dates[k],
         totalMinutes |-> TotalMinutes(Of(dates[k]), Len(Of(dates[k]))),
         sessions |-> Of(dates[k])]]

\* the sessions with s.date === today, today being the UTC day of t
TodayOf(sessions, t) ==
  LET Today(session) == session.date = DateOf(t)
  IN SelectSeq(sessions, Today)

RECURSIVE TotalSeconds(_, _)
TotalSeconds(sessions, n) ==
  IF n = 0 THEN 0 ELSE TotalSeconds(sessions, n - 1) + sessions[n].duration

\* getTodayTotal
GetTodayTotal(sessions, t) ==
  FormatTime(TotalSeconds(TodayOf(sessions, t), Len(TodayOf(sessions, t))))

\* sort((a, b) => b.startTime - a.startTime): a stable sort, latest first
RECURSIVE InsertLatestFirst(_, _)
InsertLatestFirst(session, sorted) ==
  IF sorted = <<>> THEN <<session>>
  ELSE IF session.startTime > Head(sorted).startTime
  THEN <<session>> \o sorted
  ELSE <<Head(sorted)>> \o InsertLatestFirst(session, Tail(sorted))

RECURSIVE SortLatestFirst(_)
SortLatestFirst(sessions) ==
  IF sessions = <<>> THEN <<>>
  ELSE InsertLatestFirst(sessions[Len(sessions)],
                         SortLatestFirst(SubSeq(sessions, 1, Len(sessions) - 1)))

\* getTodaySessions
GetTodaySessions(sessions, t) == SortLatestFirst(TodayOf(sessions, t))

\* renderTimelineBar, the sessions it counts: the closed sessions of today
\* and the run in progress up to t
TimelineSessions(s, t) ==
  LET Closed(session) == session.date = DateOf(t) /\ Truthy(session.endTime)
      todaySessions == SelectSeq(s.sessions, Closed)
  IN IF s.isRunning /\ Truthy(s.startTime)
     THEN Append(todaySessions,
                 [startTime |-> s.startTime, endTime |-> t,
                  duration |-> Duration(s.startTime, t), mode |-> s.mode,
                  date |-> DateOf(t)])
     ELSE todaySessions

\* the milliseconds of a session inside [hourStartTime, hourEndTime]
Overlap(session, hourStartTime, hourEndTime) ==
  LET sessionStart == IF session.startTime > hourStartTime
                      THEN session.startTime ELSE hourStartTime
      sessionEnd == IF session.endTime < hourEndTime
                    THEN session.endTime ELSE hourEndTime
  IN IF Truthy(session.endTime) /\ sessionEnd > sessionStart
     THEN sessionEnd - sessionStart ELSE 0

\* the minutes of the first n sessions inside [hourStartTime, hourEndTime]
RECURSIVE WorkedMinutes(_, _, _, _)
WorkedMinutes(sessions, n, hourStartTime, hourEndTime) ==
  IF n = 0 THEN FloatZero
  ELSE
    LET before == WorkedMinutes(sessions, n - 1, hourStartTime, hourEndTime)
        inside == Overlap(sessions[n], hourStartTime, hourEndTime)
    IN IF inside > 0
       THEN FloatAdd(before,
                     FloatDiv(FloatDiv(FloatFromInt(inside), MsPerSec),
                              SecPerMin))
       ELSE before

\* hourStart.setHours(i, 0, 0, 0) and hourEnd.setHours(i, 59, 59, 999) on
\* the local day of t
HourStart(i, t, tz) == LocalMidnight(t, tz) + i * MsPerHour
HourEnd(i, t, tz) == HourStart(i, t, tz) + MsPerHour - 1

\* the label of block i: '12 AM', '1 AM', .., '12 PM', '1 PM', ..
HourLabel(i) ==
  IF i = 0 THEN <<"1", "2", " ", "A", "M">>
  ELSE IF i = 12 THEN <<"1", "2", " ", "P", "M">>
  ELSE IF i < 12 THEN ToDecimal(i) \o <<" ", "A", "M">>
  ELSE ToDecimal(i - 12) \o <<" ", "P", "M">>

\* renderTimelineBar, the 24 blocks of the local day of t
TimelineHours(s, t, tz) ==
  LET allSessions == TimelineSessions(s, t)
      Hour(i) ==
        LET hourStartTime == HourStart(i, t, tz)
            hourEndTime == HourEnd(i, t, tz)
            workedMinutes == WorkedMinutes(allSessions, Len(allSessions),
                                           hourStartTime, hourEndTime)
        IN [hour |-> i, label |-> HourLabel(i),
            workedPercentage |->
              MathMin(FloatMul(FloatDiv(workedMinutes, 60), 100),
                      FloatFromInt(100)),
            workedMinutes |-> MathRound(workedMinutes)]
  IN [i \in 0..(HoursPerDay - 1) |-> Hour(i)]

(* --------------------------- analytics: steps -------------------------- *)
(* The page is open on a list of sessions that earlier runs recorded, with *)
(* or without a stopwatch run in progress, and renders.                    *)
\* the day of the renders, in days since 1970-01-01
ViewDay == 10
\* formatTime is evaluated on 0..MaxSeconds and on DisplayEdges
MaxSeconds == 125

At(day, h, m, s) == day * MsPerDay + h * MsPerHour + m * MsPerMin + s * MsPerSec

Nine == MkSession(At(ViewDay, 9, 0, 0), At(ViewDay, 9, 30, 0), "stopwatch")
NineFifteen == MkSession(At(ViewDay, 9, 15, 0), At(ViewDay, 10, 0, 0), "timer")
OneSecond == MkSession(At(ViewDay, 8, 0, 0), At(ViewDay, 8, 0, 1), "stopwatch")
OneMore == MkSession(At(ViewDay, 8, 0, 10), At(ViewDay, 8, 0, 11), "stopwatch")
ThreeSeconds == MkSession(At(ViewDay, 8, 0, 20), At(ViewDay, 8, 0, 23), "timer")
HalfHour ==
  MkSession(At(ViewDay - 1, 10, 0, 0), At(ViewDay - 1, 10, 30, 0), "timer")
HalfMore ==
  MkSession(At(ViewDay - 1, 11, 0, 0), At(ViewDay - 1, 11, 30, 0), "timer")
FullHour == MkSession(At(ViewDay, 10, 0, 0), At(ViewDay, 11, 0, 0), "stopwatch")
Evening ==
  MkSession(At(ViewDay - 1, 19, 30, 0), At(ViewDay - 1, 20, 0, 0), "stopwatch")
Overnight ==
  MkSession(At(ViewDay - 1, 23, 30, 0), At(ViewDay, 0, 20, 0), "stopwatch")
LastWeek ==
  MkSession(At(ViewDay - 7, 22, 0, 0), At(ViewDay - 7, 22, 45, 0), "timer")

ViewLists ==
  {<<>>,
   <<Nine, NineFifteen>>,
   <<OneSecond, OneMore, ThreeSeconds>>,
   <<HalfHour, HalfMore, FullHour>>,
   <<Evening>>,
   <<LastWeek, Evening, Overnight>>,
   <<Overnight, OneSecond, Nine>>}

ViewNows == {At(ViewDay, 0, 30, 0), At(ViewDay, 12, 0, 0)}

\* what the page finds in localStorage: the list, and no run or a
\* stopwatch run started five minutes before
ViewStorages(t) ==
  LET Past(list) == \A k \in 1..Len(list) : list[k].endTime <= t - 5 * MsPerMin
      archives == {JSONStringify(list) : list \in {l \in ViewLists : Past(l)}}
  IN {[EmptyStorage EXCEPT !.allSessions = a] : a \in archives}
     \cup {[EmptyStorage EXCEPT !.allSessions = a,
                                !.trackerMode = "stopwatch",
                                !.startTime = NumToString(t - 5 * MsPerMin)]
           : a \in archives}

DisplayEdges ==
  {SecPerHour - 1, SecPerHour, HoursPerDay * SecPerHour - 1,
   HoursPerDay * SecPerHour, 25 * SecPerHour, 100 * SecPerHour - 1,
   100 * SecPerHour}

\* the state after the mount on one of the stores
InitViews ==
  /\ now \in ViewNows
  /\ ls \in ViewStorages(now)
  /\ variant = 1
  /\ st = MountEffect(ls, now, variant)
  /\ queued = st
  /\ interval = MountInterval(st, now)
  /\ timers = MountTimers(st, variant)
  /\ mounted = TRUE
  /\ run = NoRun
  /\ starts = 0
  /\ last = [IdleOp EXCEPT !.op = "mount"]
  /\ server = NoServer
  /\ calls = NoCalls
  /\ view = NoView

\* the display of a number of seconds; the model follows each page up to
\* its first evaluation
RenderTime(seconds) ==
  /\ view = NoView
  /\ view' = [fn |-> "formatTime", seconds |-> seconds,
              text |-> FormatTime(seconds)]
  /\ UNCHANGED <<controller, server, calls>>

\* a render of the analytics with a range selected, in a time zone
RenderAnalytics(timeRange, tz) ==
  /\ view = NoView
  /\ view' = [fn |-> "analytics", timeRange |-> timeRange, tz |-> tz,
              hours |-> TimelineHours(st, now, tz),
              todayTotal |-> GetTodayTotal(st.sessions, now),
              todaySessions |-> GetTodaySessions(st.sessions, now),
              filtered |-> GetFilteredSessions(st.sessions, timeRange, now, tz),
              dayData |-> GetDayData(st.sessions, timeRange, now, tz)]
  /\ UNCHANGED <<controller, server, calls>>

NextViews ==
  \/ \E seconds \in (0..MaxSeconds) \cup DisplayEdges : RenderTime(seconds)
  \/ \E timeRange \in TimeRanges, tz \in TimeZones :
       RenderAnalytics(timeRange, tz)

Views == InitViews /\ [][NextViews]_vars

TypeOK ==
  /\ now \in T0..MaxTime
  /\ st.mode \in Modes
  /\ st.isRunning \in BOOLEAN
  /\ Len(st.sessions) <= MaxStarts + 2
  /\ starts \in 0..MaxStarts

(* ------------------------------ claims -------------------------------- *)
\* the session a list ends with, and the list without it
Newest(sessions) == sessions[Len(sessions)]
Older(sessions) == SubSeq(sessions, 1, Len(sessions) - 1)

\* C1: a stop at time t1 of the run opened by a start at time t0 appends
\* exactly one Session to the list and to the archive entry, with
\* startTime = t0, endTime = t1 and duration = floor((t1 - t0) / 1000), so
\* that 0 <= (endTime - startTime) - duration * 1000 < 1000.
C1_StartStopRecordsOneSession ==
  [][(Stop /\ run.open) =>
       /\ Len(st'.sessions) = Len(st.sessions) + 1
       /\ Older(st'.sessions) = st.sessions
       /\ ls'.allSessions = JSONStringify(st'.sessions)
       /\ LET s == Newest(st'.sessions)
          IN /\ s.startTime = run.t0
             /\ s.endTime = now
             /\ s.duration * MsPerSec <= now - run.t0
             /\ now - run.t0 < (s.duration + 1) * MsPerSec
             /\ st'.startTime = Null]_vars

\* C1 witness: a run started in the model was stopped after a time that is
\* not a whole number of seconds
C1_Witness ==
  /\ last.op = "stop" /\ last.open /\ last.stopped
  /\ Len(st.sessions) > 0
  /\ Newest(st.sessions).startTime >= T0
  /\ Newest(st.sessions).duration >= 1
  /\ Newest(st.sessions).endTime - Newest(st.sessions).startTime
       > Newest(st.sessions).duration * MsPerSec

\* C2: reset, in any state, leaves the session list and the archive entry
\* as they were and leaves the controller idle.
C2_ResetRecordsNothing ==
  [][Reset =>
       /\ st'.sessions = queued.sessions
       /\ ls'.allSessions = ls.allSessions
       /\ ~st'.isRunning
       /\ st'.startTime = Null]_vars

\* C2 witness: reset of a controller running a run opened by start
C2_Witness ==
  /\ last.op = "reset" /\ last.open
  /\ ~st.isRunning

\* C3: switchMode(newMode) while running appends exactly one Session, whose
\* mode is the mode before the switch; while idle it appends none.
C3_SwitchRecordsPreviousMode ==
  [][Switch =>
       IF st.isRunning
       THEN /\ Len(st'.sessions) = Len(st.sessions) + 1
            /\ Older(st'.sessions) = st.sessions
            /\ Newest(st'.sessions).mode = st.mode
            /\ ls'.allSessions = JSONStringify(st'.sessions)
       ELSE /\ st'.sessions = st.sessions
            /\ ls'.allSessions = ls.allSessions]_vars

\* C3 witness: a running controller was switched to the other mode
C3_Witness ==
  /\ last.op = "switchMode" /\ last.stopped
  /\ Len(st.sessions) > 0
  /\ st.mode = last.arg
  /\ Newest(st.sessions).mode # last.arg

\* stop committed at time t, as the Stop button does it
StopAt(t) == HandleStop(st, queued, ls, t)

\* C4 as stated: switchMode(newMode) while running leaves the state and
\* the resumption store that stop followed by start in newMode leaves.
C4_SwitchIsStopThenStart ==
  [][\A newMode \in Modes :
       (SwitchTo(newMode) /\ st.isRunning) =>
         LET stopped == StopAt(now)
             inNewMode == [stopped.s EXCEPT !.mode = newMode]
             started == HandleStart(inNewMode, inNewMode, stopped.ls, now)
         IN st' = started.s /\ ls' = started.ls]_vars

\* C4 amended: switchMode(newMode) while running leaves the state and the
\* resumption store that stop followed by switchMode(newMode) on the idle
\* controller leaves: idle in newMode, display reset, no run started.
C4_SwitchIsStopThenIdleSwitch ==
  [][\A newMode \in Modes :
       (SwitchTo(newMode) /\ st.isRunning) =>
         LET stopped == StopAt(now)
             switched == SwitchMode(stopped.s, stopped.s, stopped.ls,
                                    newMode, now)
         IN /\ st' = switched.s
            /\ ls' = switched.ls
            /\ ~st'.isRunning
            /\ st'.mode = newMode
            /\ ~Present(ls'.startTime)]_vars

\* C4 witness: a running controller was switched to the other mode and is
\* idle in it
C4_Witness ==
  /\ last.op = "switchMode" /\ last.stopped
  /\ st.mode = last.arg
  /\ ~st.isRunning
  /\ Len(st.sessions) > 0
  /\ Newest(st.sessions).mode # st.mode

\* C5 as stated: a mount or reload that finds a persisted timer run with
\* now - startTime >= timerDuration leaves the controller idle at once, with
\* one closed Session appended whose duration equals timerDuration.
C5_ExpiredTimerStopsAtResume ==
  [][(/\ (Mount \/ Reload)
      /\ ls.trackerMode = "timer"
      /\ Present(ls.startTime) /\ Present(ls.timerStartTime)
      /\ Present(ls.timerDuration)
      /\ now - ParseInt(ls.startTime) >= ParseInt(ls.timerDuration) * MsPerSec)
      =>
       /\ ~st'.isRunning
       /\ Len(st'.sessions) = Len(ls.allSessions.val) + 1
       /\ Newest(st'.sessions).duration = ParseInt(ls.timerDuration)]_vars

\* C6: a reload at time now of a controller whose run was opened by start
\* at time s in mode m (timer duration D) yields a running controller with
\* mode m and startTime s, elapsed = floor((now - s) / 1000) in stopwatch
\* mode and remaining = max(0, D - floor((now - s) / 1000)) in timer mode.
C6_ReloadReconstructsRun ==
  [][(Reload /\ run.open) =>
       LET seconds == (now - run.t0) \div MsPerSec
       IN /\ st'.isRunning
          /\ st'.mode = run.mode
          /\ st'.startTime = run.t0
          /\ run.mode = "stopwatch" => st'.elapsedTime = seconds
          /\ run.mode = "timer" =>
               st'.timerRemaining =
                 IF run.D - seconds > 0 THEN run.D - seconds ELSE 0]_vars

\* C6 witness: a timer run opened by start was reloaded two or more seconds
\* later, after ticks had fired
C6_Witness ==
  /\ last.op = "reload" /\ last.open
  /\ st.isRunning /\ st.mode = "timer"
  /\ st.timerRemaining > 0
  /\ st.timerRemaining <= st.timerDuration - 2

\* a closed session: endTime set and not before startTime, duration >= 0
Closed(s) ==
  /\ s.endTime # Null /\ s.endTime # NaN
  /\ s.startTime # Null /\ s.startTime # NaN
  /\ s.endTime >= s.startTime
  /\ s.duration # NaN /\ s.duration >= 0

AllClosed(sessions) == \A i \in 1..Len(sessions) : Closed(sessions[i])

\* C7: every Session of the session list, rendered or queued, and of the
\* archive entry is closed; an interval still in progress is in neither.
C7_StoredSessionsAreClosed ==
  /\ AllClosed(st.sessions)
  /\ AllClosed(queued.sessions)
  /\ AllClosed(ls.allSessions.val)

\* C7 witness: a run opened by start is in progress beside stored sessions
C7_Witness ==
  /\ st.isRunning /\ run.open
  /\ Len(st.sessions) > 0
  /\ ls.allSessions = JSONStringify(st.sessions)

\* C8: stop with no active startTime changes nothing: the session list and
\* every other state, queued or rendered, and localStorage stay as they are.
C8_StopWithoutStartIsNoOp ==
  [][(Stop /\ ~Truthy(st.startTime)) =>
       /\ queued' = queued
       /\ st' = queued
       /\ ls' = ls
       /\ run' = run]_vars

\* C8 witness: the Stop button was pressed while startTime was not a time
C8_Witness ==
  /\ last.op = "stop" /\ ~last.stopped
  /\ st.isRunning /\ ~Truthy(st.startTime)

\* C9: every execution of handleStop, also one that runs before the updates
\* of an earlier stop of the same run are rendered, leaves the rendered
\* list plus exactly one Session in the queued list and in the archive.
C9_RacingStopsRecordOneSession ==
  [][last'.stopped =>
       /\ Len(queued'.sessions) = Len(st.sessions) + 1
       /\ Older(queued'.sessions) = st.sessions
       /\ ls'.allSessions = JSONStringify(queued'.sessions)]_vars

\* C9 witness: the Stop button was pressed after the tick had auto-fired
\* stop and before that stop was rendered
C9_Witness ==
  /\ last.op = "stop" /\ last.raced /\ last.stopped
  /\ ~st.isRunning
  /\ Len(st.sessions) > 0

\* C10: a running timer left to the ticks is eventually stopped by them:
\* the controller becomes idle with one more Session, of mode timer.
C10_TimerEventuallyAutoStops ==
  \A n \in 0..(MaxStarts + 1) :
    (mounted /\ st.isRunning /\ st.mode = "timer" /\ Len(st.sessions) = n)
      ~> (/\ ~st.isRunning
          /\ Len(st.sessions) = n + 1
          /\ Newest(st.sessions).mode = "timer")

\* C10 witness: the timer resumed with two seconds left was stopped by a
\* tick and the stop rendered
C10_Witness ==
  /\ last.op = "render" /\ ~st.isRunning
  /\ Len(st.sessions) > 0
  /\ Newest(st.sessions).mode = "timer"
  /\ Newest(st.sessions).startTime \in PastTimerStarts
  /\ Newest(st.sessions).duration > SecPerMin

\* the same sessions, in any order
SameSessions(a, b) ==
  /\ Len(a) = Len(b)
  /\ \A x \in {a[n] : n \in 1..Len(a)} \cup {b[n] : n \in 1..Len(b)} :
       Cardinality({n \in 1..Len(a) : a[n] = x})
         = Cardinality({n \in 1..Len(b) : b[n] = x})

\* C11: with each call awaited, a listAll (GET) that follows a completed
\* replaceAll(L) (POST of the array L) returns exactly the sessions of L,
\* whatever was stored before, and replaceAll of the empty list succeeds.
C11_ReplaceAllThenListAll ==
  \A i \in 1..MaxCalls :
    /\ (/\ calls[i].op = "POST" /\ calls[i].pc = "done"
        /\ calls[i].body = ArrayBody(<<>>))
         => calls[i].res.success
    /\ (/\ i > 1
        /\ calls[i].op = "GET"
        /\ calls[i - 1].op = "POST" /\ calls[i - 1].body.kind = "array"
        /\ calls[i - 1].res.success)
         => SameSessions(calls[i].res.data, calls[i - 1].body.val)

\* the lists the store may hold when call i is made: its contents before
\* any replaceAll, or the argument of a replaceAll made before call i
ReplacedBefore(i) ==
  {server.before}
    \cup {calls[j].body.val : j \in {k \in 1..(i - 1) : calls[k].op = "POST"}}

\* C12: under every interleaving of replaceAll and listAll calls, and when
\* the insert step fails, every listAll result, and the store once no call
\* is in flight, holds the contents before the replaceAll calls or exactly
\* the argument of one of them.
C12_ReplaceAllIsAtomic ==
  /\ \A i \in 1..MaxCalls :
       calls[i].op = "GET" =>
         \E list \in ReplacedBefore(i) : SameSessions(calls[i].res.data, list)
  /\ (\A i \in 1..MaxCalls : ~InFlight(i)) =>
       \E list \in ReplacedBefore(MaxCalls + 1) :
         SameSessions(server.docs, list)

\* C17: a POST whose body is not JSON, or is JSON but no array, is answered
\* with status 500 and an error field, never with success.
C17_MalformedBodyIsAnError ==
  \A i \in 1..MaxCalls :
    (/\ calls[i].op = "POST" /\ calls[i].pc = "done"
     /\ calls[i].body \in MalformedBodies)
      => /\ calls[i].res.status >= 500
         /\ calls[i].res.error
         /\ ~calls[i].res.success

\* localStorage with its unparseable entries removed
WithoutMalformed(store) ==
  [store EXCEPT !.startTime = IF @ = BadItem THEN NoItem ELSE @,
                !.allSessions = IF @ = BadSessions THEN NoSessions ELSE @]

\* C16: a mount or reload that finds an unparseable startTime or archive
\* entry initializes as if the entry were absent; with an unparseable
\* startTime the controller is idle with startTime null.
C16_MalformedEntriesAreAbsent ==
  [][((Mount \/ Reload) /\ ls # WithoutMalformed(ls)) =>
       /\ st' = MountEffect(WithoutMalformed(ls), now, variant)
       /\ ls.startTime = BadItem => (~st'.isRunning /\ st'.startTime = Null)
       /\ ls.allSessions = BadSessions => st'.sessions = <<>>]_vars

\* C18 as stated: setTimerMinutes with a non-numeric entry sets
\* timerDuration and timerRemaining to 25 minutes, and with the numeral of
\* m to m * 60 seconds.
C18_TimerMinutesOrDefault ==
  [][\A tempMinutes \in TimerInputs :
       SetMinutesTo(tempMinutes) =>
         LET seconds == IF tempMinutes.kind = "num"
                        THEN tempMinutes.val * SecPerMin
                        ELSE DefaultMinutes * SecPerMin
         IN st'.timerDuration = seconds /\ st'.timerRemaining = seconds]_vars

\* C18 amended: setTimerMinutes with a non-numeric entry or with 0 sets
\* timerDuration and timerRemaining to 25 minutes, and with the numeral of
\* an integer m other than 0 to m * 60 seconds.
C18_TimerMinutesOrDefaultForZero ==
  [][\A tempMinutes \in TimerInputs :
       SetMinutesTo(tempMinutes) =>
         LET seconds == IF tempMinutes.kind = "num" /\ tempMinutes.val # 0
                        THEN tempMinutes.val * SecPerMin
                        ELSE DefaultMinutes * SecPerMin
         IN st'.timerDuration = seconds /\ st'.timerRemaining = seconds]_vars

\* C18 witness: a timer length of one minute was resumed from localStorage
\* and then set back to the default by an entry of 0 or of no number
C18_Witness ==
  /\ mounted /\ ~st.isRunning /\ st.mode = "timer"
  /\ ls.timerDuration = NumToString(SecPerMin)
  /\ st.timerDuration = DefaultMinutes * SecPerMin
  /\ st.timerRemaining = DefaultMinutes * SecPerMin

\* C20: every tick of a running timer started at s with duration D leaves
\* remaining = max(0, D - floor((now - s) / 1000)), however many ticks
\* fired before, and it stops the run exactly when that value is 0.
C20_TickDerivesRemainingFromStart ==
  [][(/\ Tick
      /\ interval.c.mode = "timer" /\ Truthy(interval.c.startTime)
      /\ queued.isRunning) =>
       LET elapsed == (now - interval.c.startTime) \div MsPerSec
           remaining == IF interval.c.timerDuration - elapsed > 0
                        THEN interval.c.timerDuration - elapsed ELSE 0
       IN /\ last'.stopped <=> remaining = 0
          /\ ~last'.stopped => queued'.timerRemaining = remaining]_vars

\* the number a string of decimal digits denotes
IsDigits(field) ==
  \A k \in 1..Len(field) : \E d \in 1..10 : DigitChars[d] = field[k]

RECURSIVE ParseDecimal(_)
ParseDecimal(field) ==
  IF field = <<>> THEN 0
  ELSE ParseDecimal(SubSeq(field, 1, Len(field) - 1)) * 10
         + (CHOOSE d \in 0..9 : DigitChars[d + 1] = field[Len(field)])

\* a number padded with zeros to two digits and no further
PaddedToTwo(field) ==
  Len(field) >= 2 /\ IsDigits(field) /\ (Len(field) > 2 => field[1] # "0")

\* C19: for every non-negative integer n, the text formatTime(n) renders
\* is three fields h, m, s separated by two colons, each a decimal number
\* zero-padded to at least two digits, with h*3600 + m*60 + s = n,
\* 0 <= m < 60 and 0 <= s < 60; the hours are not wrapped at 24.
C19_FormatTimeFields ==
  view.fn = "formatTime" =>
    LET text == view.text
        colons == {k \in 1..Len(text) : text[k] = ":"}
        c1 == CHOOSE k \in colons : \A j \in colons : k <= j
        c2 == CHOOSE k \in colons : \A j \in colons : j <= k
        hh == SubSeq(text, 1, c1 - 1)
        mm == SubSeq(text, c1 + 1, c2 - 1)
        ss == SubSeq(text, c2 + 1, Len(text))
    IN /\ Cardinality(colons) = 2
       /\ PaddedToTwo(hh) /\ PaddedToTwo(mm) /\ PaddedToTwo(ss)
       /\ ParseDecimal(mm) \in 0..59
       /\ ParseDecimal(ss) \in 0..59
       /\ ParseDecimal(hh) * 3600 + ParseDecimal(mm) * 60 + ParseDecimal(ss)
            = view.seconds

\* 90000 seconds are displayed as 25:00:00
C19_Witness ==
  /\ view.fn = "formatTime"
  /\ view.seconds = 90000
  /\ view.text = <<"2", "5", ":", "0", "0", ":", "0", "0">>

\* C13: in the today timeline, the workedMinutes of every one-hour block
\* is within 0..60, for every list of sessions, overlapping ones included.
C13_WorkedMinutesWithinTheHour ==
  view.fn = "analytics" =>
    \A i \in 0..(HoursPerDay - 1) : view.hours[i].workedMinutes \in 0..60

\* C15: the date of every session stop creates is the local calendar day
\* of its startTime, for every time zone; hence a session counts for
\* today's total and today's session list exactly when its startTime is
\* at or after the local midnight of today, which is exactly when the
\* 'today' range includes it.
C15_DateIsLocalDay ==
  (view.fn = "analytics" /\ view.timeRange = "today") =>
    LET SinceMidnight(session) ==
          session.startTime >= LocalMidnight(now, view.tz)
        Listed(session) ==
          \E k \in 1..Len(view.todaySessions) : view.todaySessions[k] = session
        Filtered(session) ==
          \E k \in 1..Len(view.filtered) : view.filtered[k] = session
        sinceMidnight == SelectSeq(st.sessions, SinceMidnight)
    IN /\ \A k \in 1..Len(st.sessions) :
            LET session == st.sessions[k]
            IN /\ session.date = LocalDay(session.startTime, view.tz)
               /\ Listed(session) <=> SinceMidnight(session)
               /\ Listed(session) <=> Filtered(session)
       /\ view.todayTotal
            = FormatTime(TotalSeconds(sinceMidnight, Len(sinceMidnight)))

\* the lists with the elements of a list in every order
Shuffles(sessions) ==
  {[k \in 1..Len(sessions) |-> sessions[p[k]]]
     : p \in Permutations(1..Len(sessions))}

\* the dates and totals of a list of day entries
Totals(dayData) ==
  [k \in 1..Len(dayData) |->
     [date |-> dayData[k].date, totalMinutes |-> dayData[k].totalMinutes]]

\* C14: getDayData yields one entry per distinct date among the sessions
\* in range, in ascending order of the dates, each with totalMinutes the
\* sum of duration / 60 over the sessions of that date, and the dates and
\* totals are the same for every permutation of the session list.
C14_DayDataPerDateInAnyOrder ==
  view.fn = "analytics" =>
    LET days == view.dayData
    IN /\ {days[k].date : k \in 1..Len(days)}
            = {view.filtered[k].date : k \in 1..Len(view.filtered)}
       /\ \A j, k \in 1..Len(days) : j < k => days[j].date < days[k].date
       /\ \A k \in 1..Len(days) :
            LET On(session) == session.date = days[k].date
                sessions == SelectSeq(view.filtered, On)
            IN days[k].totalMinutes = TotalMinutes(sessions, Len(sessions))
       /\ \A shuffled \in Shuffles(st.sessions) :
            Totals(GetDayData(shuffled, view.timeRange, now, view.tz))
              = Totals(days)

\* C21: at most one interval is live in every reachable state, the live
\* one is the one intervalRef denotes and the model's tick source, and no
\* interval is live while the controller is idle; so no tick fires while
\* idle and no second is counted by two intervals.
C21_OneTickSource ==
  /\ Cardinality(timers.live) <= 1
  /\ timers.live # {} => timers.ref \in timers.live
  /\ interval.active <=> timers.live # {}
  /\ ~st.isRunning => timers.live = {}

\* a second interval is live, after the first one was cleared (copy 2
\* keeps the cleared identifier in intervalRef until the next setInterval)
C21_Witness ==
  /\ variant = 2 /\ st.isRunning /\ starts = 1
  /\ timers = [ref |-> 2, live |-> {2}]

\* a transition is completed when the page is mounted and no update is
\* waiting for a render
Settled == mounted /\ queued = st

\* C22: after every completed transition, localStorage holds a startTime
\* entry exactly when the controller is running; when it does, the entry
\* is the controller's startTime and the trackerMode entry is its mode;
\* when it does not, the timerStartTime entry is absent as well.
C22_StoreFollowsRunState ==
  Settled =>
    /\ Present(ls.startTime) <=> st.isRunning
    /\ st.isRunning => /\ ParseInt(ls.startTime) = st.startTime
                       /\ ls.trackerMode = st.mode
    /\ ~st.isRunning => ~Present(ls.timerStartTime)

\* a run that start opened has been stopped: the entries start wrote are
\* gone, the mode it wrote stays
C22_Witness ==
  /\ Settled /\ ~st.isRunning
  /\ last.op = "stop" /\ last.open /\ last.stopped
  /\ ~Present(ls.startTime) /\ ls.trackerMode = st.mode

\* C23: whenever a render of the mounted page turns the controller from
\* running to idle (after stop, the stop the tick fires at expiry, reset
\* or switchMode), it shows elapsedTime = 0 and timerRemaining =
\* timerDuration.
C23_IdleDisplayIsReset ==
  [][(mounted /\ mounted' /\ st.isRunning /\ ~st'.isRunning
        /\ last'.op \in {"stop", "reset", "switchMode", "render"})
       => (st'.elapsedTime = 0 /\ st'.timerRemaining = st'.timerDuration)]_vars

\* the sum of the first n numbers of a sequence
RECURSIVE Total(_, _)
Total(numbers, n) == IF n = 0 THEN 0 ELSE Total(numbers, n - 1) + numbers[n]

\* max(0, min(sessionEnd, slotEnd) - max(sessionStart, slotStart)) for the
\* slot [slotStart, slotStart + 1 h)
SlotOverlap(session, slotStart) ==
  LET from == IF session.startTime > slotStart
              THEN session.startTime ELSE slotStart
      to == IF session.endTime < slotStart + MsPerHour
            THEN session.endTime ELSE slotStart + MsPerHour
  IN IF to > from THEN to - from ELSE 0

\* the minutes of the first n sessions inside the slot
RECURSIVE SlotMinutes(_, _, _)
SlotMinutes(sessions, n, slotStart) ==
  IF n = 0 THEN FloatZero
  ELSE IF SlotOverlap(sessions[n], slotStart) = 0
  THEN SlotMinutes(sessions, n - 1, slotStart)
  ELSE FloatAdd(SlotMinutes(sessions, n - 1, slotStart),
                FloatDiv(FloatDiv(FloatFromInt(SlotOverlap(sessions[n],
                                                           slotStart)),
                                  MsPerSec), SecPerMin))

\* C24: each of the 24 blocks of the current local day counts the overlap
\* with [h:00, h+1:00) of every closed session and of the run in progress
\* up to now, sessions that started before today's local midnight
\* included; and the overlaps of one session that lies inside today sum
\* to endTime - startTime.
C24_TimelineCountsEveryOverlap ==
  view.fn = "analytics" =>
    LET HasEnd(session) == Truthy(session.endTime)
        closed == SelectSeq(st.sessions, HasEnd)
        counted == IF st.isRunning
                   THEN Append(closed, [startTime |-> st.startTime,
                                        endTime |-> now])
                   ELSE closed
        midnight == LocalMidnight(now, view.tz)
        Inside(session) ==
          /\ session.startTime >= midnight
          /\ session.endTime <= midnight + HoursPerDay * MsPerHour
        Counted(session) ==
          [i \in 1..HoursPerDay |->
             Overlap(session, HourStart(i - 1, now, view.tz),
                     HourEnd(i - 1, now, view.tz))]
    IN /\ \A i \in 0..(HoursPerDay - 1) :
            view.hours[i].workedMinutes
              = MathRound(SlotMinutes(counted, Len(counted),
                                      HourStart(i, now, view.tz)))
       /\ \A k \in 1..Len(closed) :
            Inside(closed[k]) =>
              Total(Counted(closed[k]), HoursPerDay)
                = closed[k].endTime - closed[k].startTime

\* C25: in every reachable state isRunning is true exactly when startTime
\* is not null, in the rendered state and in the state the queued updates
\* lead to.
C25_RunningIffStartTime ==
  /\ st.isRunning <=> st.startTime # Null
  /\ queued.isRunning <=> queued.startTime # Null
  /\ st.isRunning => Truthy(st.startTime)

\* the controller is idle again after Stop closed a run that the mount had
\* resumed from localStorage
C25_Witness ==
  /\ mounted /\ ~st.isRunning /\ st.startTime = Null
  /\ last.op = "stop" /\ last.stopped /\ ~last.open
  /\ st.sessions # <<>>

\* C26: the session list is append-only. A step in which the body of
\* handleStop runs (Stop, switchMode while running, the tick at expiry)
\* appends exactly one Session to the end of the archive entry and of the
\* list in memory, which are equal afterwards; every other step leaves the
\* archive entry as it is, and leaves the list in memory as it is once the
\* page is mounted. No stored Session is removed, moved or modified.
C26_SessionListIsAppendOnly ==
  [][/\ last'.stopped =>
          /\ Len(ls'.allSessions.val) = Len(ls.allSessions.val) + 1
          /\ Older(ls'.allSessions.val) = ls.allSessions.val
          /\ Len(queued'.sessions) = Len(queued.sessions) + 1
          /\ Older(queued'.sessions) = queued.sessions
          /\ ls'.allSessions = JSONStringify(queued'.sessions)
     /\ ~last'.stopped =>
          /\ ls'.allSessions = ls.allSessions
          /\ mounted => queued'.sessions = queued.sessions]_vars

\* C27: in every reachable state timerDuration > 0 and
\* 0 <= timerRemaining <= timerDuration, for every entry of the timer
\* minutes field, every reload and every sequence of ticks.
C27_RemainingWithinDuration ==
  /\ st.timerDuration > 0
  /\ 0 <= st.timerRemaining /\ st.timerRemaining <= st.timerDuration
  /\ queued.timerDuration > 0
  /\ 0 <= queued.timerRemaining /\ queued.timerRemaining <= queued.timerDuration

\* C28: the mode and the timer duration of a run are fixed at start: while
\* the run opened by a start is open, the controller's mode and
\* timerDuration are the ones that start saw, also after a reload, and the
\* Session recorded when the run is closed carries that mode.
C28_RunFixedAtStart ==
  [][/\ run'.open =>
          /\ st'.mode = run'.mode /\ queued'.mode = run'.mode
          /\ st'.timerDuration = run'.D /\ queued'.timerDuration = run'.D
     /\ (run.open /\ Len(queued'.sessions) > Len(queued.sessions)) =>
          Newest(queued'.sessions).mode = run.mode]_vars

====
